---- MODULE Spec2Model ----
\* Model of main.py (sheet-to-bq): the credential lifecycle and the
\* fetch-stage-load pipeline of sheets_to_bq, with the local scratch
\* directory, remote key storage, Drive, Sheets and BigQuery as environment.
EXTENDS Integers, Sequences, FiniteSets, TLC

\* ------------------------------------------------------------------ bounds
MaxRuns == 2
MaxClock == 1
MaxDocs == 2

\* ------------------------------------------------------------------ constants
BQ_DATASET == "sheets_to_bq"

HISTORY_DATASET == "sheets_to_bq_history"

DoneMessage == "DONE: imported all sheets"

\* Display names of the documents Drive may list (strings as sequences of
\* characters, so that replace('-', '_') is computed character by character).
\* Drive does not keep display names unique, so a listing may repeat a name.
SheetNames == { <<"a", "-", "b">>, <<"a", "_", "b">> }

\* The value grids the Sheets API may return for a document: no values at
\* all, or two rows of one cell each.
Grids == { <<>>, << <<"x">>, <<"y">> >> }

\* What Drive's files().list may return: at most MaxDocs documents, the
\* document at position i having id i and any display name.
SheetLists == UNION { [1..n -> SheetNames] : n \in 0..MaxDocs }

\* ------------------------------------------------------------------ helpers
Put(f, k, v) == [x \in (DOMAIN f) \cup {k} |-> IF x = k THEN v ELSE f[x]]

Remove(f, k) == [x \in (DOMAIN f) \ {k} |-> f[x]]

EmptyMap == [x \in {} |-> {}]

\* ------------------------------------------------------------------ credentials
\* A credential object: token is "the credential carries a token value",
\* expired is its expiry having passed; valid as google.auth defines it.
Valid(c) == c.token /\ ~c.expired

\* service_account.Credentials.from_service_account_file: no token yet.
ServiceAccountCreds == [token |-> FALSE, expired |-> FALSE]

\* creds.refresh(Request()) when it succeeds.
Refreshed(c) == [c EXCEPT !.token = TRUE, !.expired = FALSE]

\* `_check_creds(...) or _fetch_creds(...)`: the right operand is evaluated
\* exactly when the left one is falsy, i.e. None (creds = {}).
NeedFetchM(c) == TRUE

NeedFetch(c) == c = {}

\* `if creds.token:` before _save_creds.
ShouldSaveM(c) == TRUE

ShouldSave(c) == c.token

\* ------------------------------------------------------------------ names
RECURSIVE Replace(_)
Replace(s) ==
  IF s = <<>> THEN <<>>
  ELSE <<IF Head(s) = "-" THEN "_" ELSE Head(s)>> \o Replace(Tail(s))

\* table_name.replace('-', '_')
NormalizeTableNameM(name) == name

NormalizeTableName(name) == Replace(name)

Digit(n) == CASE n = 0 -> "0" [] n = 1 -> "1" [] n = 2 -> "2" [] n = 3 -> "3"
              [] n = 4 -> "4" [] n = 5 -> "5" [] n = 6 -> "6" [] n = 7 -> "7"
              [] n = 8 -> "8" [] n = 9 -> "9"

\* datetime.now().strftime('%Y%m%d%H%M'): minute granularity, digits only.
\* The clock counts minutes; the model keeps the two minute digits.
Strftime(minute) == << Digit((minute \div 10) % 10), Digit(minute % 10) >>

\* '%s_%s' % (sheet.name, timestamp)
HistoryTableName(name, ts) == name \o <<"_">> \o ts

\* _generate_filepath('%s.csv' % sheet.name)
CsvPath(name) == name \o <<".csv">>

\* ------------------------------------------------------------------ staging
\* csv.writer(..., quoting=QUOTE_ALL, quotechar='"'): one record per row,
\* every field quoted.
QuoteField(cell) == << "\"", cell, "\"" >>

WriteToTmp(values) == [i \in DOMAIN values |->
                         [j \in DOMAIN values[i] |-> QuoteField(values[i][j])]]

UnquoteField(f) == f[2]

\* The load job: parse the CSV records, skip_leading_rows = 1.
SkipLeadingRows(recs) == IF recs = <<>> THEN <<>> ELSE Tail(recs)

ParseCsv(file) == [i \in DOMAIN file |->
                     [j \in DOMAIN file[i] |-> UnquoteField(file[i][j])]]

LoadedRows(file) == SkipLeadingRows(ParseCsv(file))

\* ------------------------------------------------------------------ state
VARIABLES
  tokenFile,    \* token.pickle in the temp dir: {} or {credential}
  keyFile,      \* credentials.json exists in the temp dir
  tmpFiles,     \* staged CSV files: path -> content
  dsStatus,     \* dataset name -> "exists" | "missing" | "forbidden"
  bqTables,     \* <<dataset, table>> -> rows, for the tables that exist
  clock,        \* wall clock, in minutes
  runNo,        \* number of runs of sheets_to_bq started
  pc,           \* position of the current run
  request,      \* the run was triggered by a request
  creds,        \* the run's credential: {} (None) or {credential}
  timestamp,    \* the run's timestamp
  sheets,       \* the documents enumerated in this run
  idx,          \* index of the document being processed
  outcome,      \* how the run ended
  blobResult,   \* what bucket.get_blob gave in this run
  keyCalls,     \* this run's [lookups, downloads, parses] on the key
  dsLookups,    \* this run's get_dataset calls
  dsByDoc,      \* this run's get_dataset calls made while processing documents
  tokenWrites,  \* this run's writes of token.pickle
  tokenAtStart, \* tokenFile when the run started
  cacheCreds,   \* what _check_creds returned in this run ({} before, or None)
  fetched,      \* this run's fetched grids, by document index
  loaded,       \* this run's completed loads: <<index, "primary"|"history">>
  tableCalls,   \* this run's get_table/create_table calls
  histLoads     \* history table -> "one" or "many" (run, document) loads into it

envVars == << tokenFile, keyFile, tmpFiles, dsStatus, bqTables, clock >>

runVars == << runNo, pc, request, creds, timestamp, sheets, idx, outcome >>

logVars == << blobResult, keyCalls, dsLookups, dsByDoc, tokenWrites,
              tokenAtStart, cacheCreds, fetched, loaded, tableCalls,
              histLoads >>

vars == << envVars, runVars, logVars >>

NoKeyCalls == [lookups |-> 0, downloads |-> 0, parses |-> 0]

Terminal == { "done", "aborted", "crashed" }

Init ==
  /\ tokenFile = {}
  /\ keyFile = FALSE
  /\ tmpFiles = EmptyMap
  /\ dsStatus \in [{BQ_DATASET, HISTORY_DATASET} -> {"missing", "forbidden"}]
  /\ bqTables = EmptyMap
  /\ clock = 0
  /\ runNo = 0
  /\ pc = "idle"
  /\ request = FALSE
  /\ creds = {}
  /\ timestamp = <<>>
  /\ sheets = <<>>
  /\ idx = 1
  /\ outcome = "none"
  /\ blobResult = "none"
  /\ keyCalls = NoKeyCalls
  /\ dsLookups = 0
  /\ dsByDoc = 0
  /\ tokenWrites = 0
  /\ tokenAtStart = {}
  /\ cacheCreds = {}
  /\ fetched = EmptyMap
  /\ loaded = {}
  /\ tableCalls = {}
  /\ histLoads = EmptyMap

\* An unhandled exception leaves sheets_to_bq.
Raise ==
  /\ pc' = "crashed"
  /\ outcome' = "exception"

\* ------------------------------------------------------------------ warehouse
\* _get_bq_dataset: get_dataset; NotFound -> create_dataset; Forbidden ->
\* logged, None returned.
GetBqDataset(status) ==
  CASE status = "exists"    -> [handle |-> TRUE,  status |-> "exists"]
    [] status = "missing"   -> [handle |-> TRUE,  status |-> "exists"]
    [] status = "forbidden" -> [handle |-> FALSE, status |-> "forbidden"]

\* The datasets sheets_to_bq ensures before it enumerates documents.
RunDatasetsM == { BQ_DATASET }

RunDatasets == { BQ_DATASET, HISTORY_DATASET }

TableCall(op, ds, requested) ==
  [op |-> op, dataset |-> ds, requested |-> requested,
   table |-> NormalizeTableName(requested)]

\* The client libraries authorize the calls of lines 235-244 and refresh a
\* credential that is not valid; whether the token value is then on the
\* run's credential object when line 246 reads it is theirs to decide (tok).
Authorized(c, tok) == IF Valid(c) THEN c ELSE [c EXCEPT !.token = tok]

\* ------------------------------------------------------------------ environment
\* A minute passes between runs.
Tick ==
  /\ pc = "idle"
  /\ clock < MaxClock
  /\ clock' = clock + 1
  /\ UNCHANGED << tokenFile, keyFile, tmpFiles, dsStatus, bqTables, runVars, logVars >>

\* The cached token's expiry passes between runs.
ExpireToken ==
  /\ pc = "idle"
  /\ \E c \in tokenFile :
       /\ ~c.expired
       /\ tokenFile' = { [c EXCEPT !.expired = TRUE] }
  /\ UNCHANGED << keyFile, tmpFiles, dsStatus, bqTables, clock, runVars, logVars >>

\* ------------------------------------------------------------------ sheets_to_bq
\* What a run's own variables are before it starts.
RunReset ==
  /\ request' = FALSE
  /\ creds' = {}
  /\ timestamp' = <<>>
  /\ sheets' = <<>>
  /\ idx' = 1
  /\ outcome' = "none"
  /\ blobResult' = "none"
  /\ keyCalls' = NoKeyCalls
  /\ dsLookups' = 0
  /\ dsByDoc' = 0
  /\ tokenWrites' = 0
  /\ tokenAtStart' = {}
  /\ cacheCreds' = {}
  /\ fetched' = EmptyMap
  /\ loaded' = {}
  /\ tableCalls' = {}

\* sheets_to_bq(request) is invoked.
StartRun ==
  /\ pc = "idle"
  /\ runNo < MaxRuns
  /\ runNo' = runNo + 1
  /\ pc' = "check_creds"
  /\ request' \in BOOLEAN
  /\ tokenAtStart' = tokenFile
  /\ UNCHANGED << envVars, creds, timestamp, sheets, idx, outcome, blobResult,
                  keyCalls, dsLookups, dsByDoc, tokenWrites, cacheCreds, fetched,
                  loaded, tableCalls, histLoads >>

\* The run is over (returned, aborted or raised); its locals are gone.
EndRun ==
  /\ pc \in Terminal
  /\ pc' = "idle"
  /\ RunReset
  /\ UNCHANGED << envVars, runNo, histLoads >>

\* _check_creds, and the `or` of line 226.
CheckCreds ==
  /\ pc = "check_creds"
  /\ \/ /\ tokenFile = {}
        /\ cacheCreds' = {}
        /\ creds' = {}
        /\ pc' = IF NeedFetch({}) THEN "fetch_creds" ELSE "have_creds"
        /\ UNCHANGED outcome
     \/ \E c \in tokenFile :
          \/ /\ Valid(c) \/ ~c.expired
             /\ cacheCreds' = {c}
             /\ creds' = {c}
             /\ pc' = IF NeedFetch({c}) THEN "fetch_creds" ELSE "have_creds"
             /\ UNCHANGED outcome
          \/ /\ ~Valid(c) /\ c.expired
             /\ \/ /\ cacheCreds' = {Refreshed(c)}
                   /\ creds' = {Refreshed(c)}
                   /\ pc' = IF NeedFetch({Refreshed(c)}) THEN "fetch_creds"
                            ELSE "have_creds"
                   /\ UNCHANGED outcome
                \/ /\ Raise
                   /\ UNCHANGED << cacheCreds, creds >>
  /\ UNCHANGED << envVars, runNo, request, timestamp, sheets, idx, blobResult,
                  keyCalls, dsLookups, dsByDoc, tokenWrites, tokenAtStart,
                  fetched, loaded, tableCalls, histLoads >>

\* _fetch_creds with _get_credentials_json: get_blob gives the blob ("ok"),
\* None ("missing") or raises ("error"); the key file is parsed if it exists.
FetchCreds ==
  /\ pc = "fetch_creds"
  /\ \E blob \in {"ok", "missing", "error"} :
       /\ blobResult' = blob
       /\ IF blob = "error"
          THEN /\ Raise
               /\ keyCalls' = [keyCalls EXCEPT !.lookups = @ + 1]
               /\ UNCHANGED << keyFile, creds >>
          ELSE LET kf == keyFile \/ blob = "ok"
               IN /\ keyFile' = kf
                  /\ creds' = IF kf THEN {ServiceAccountCreds} ELSE {}
                  /\ keyCalls' = [lookups |-> keyCalls.lookups + 1,
                                  downloads |-> keyCalls.downloads
                                                + (IF blob = "ok" THEN 1 ELSE 0),
                                  parses |-> keyCalls.parses
                                             + (IF kf THEN 1 ELSE 0)]
                  /\ pc' = "have_creds"
                  /\ UNCHANGED outcome
  /\ UNCHANGED << tokenFile, tmpFiles, dsStatus, bqTables, clock, runNo, request,
                  timestamp, sheets, idx, dsLookups, dsByDoc, tokenWrites,
                  tokenAtStart, cacheCreds, fetched, loaded, tableCalls,
                  histLoads >>

\* `if not creds:` flask.abort(500) for a request, print and return otherwise.
CheckAbort ==
  /\ pc = "have_creds"
  /\ IF creds = {}
     THEN /\ pc' = "aborted"
          /\ outcome' = IF request THEN "abort(500)" ELSE "Quit"
     ELSE /\ pc' = "ensure_datasets"
          /\ UNCHANGED outcome
  /\ UNCHANGED << envVars, runNo, request, creds, timestamp, sheets, idx, logVars >>

\* Lines 235-239: the clients, then _get_bq_dataset for each run dataset, the
\* results discarded.
EnsureDatasets ==
  /\ pc = "ensure_datasets"
  /\ \E err \in BOOLEAN :
       /\ IF err
          THEN /\ Raise
               /\ dsLookups' = dsLookups + 1
               /\ UNCHANGED dsStatus
          ELSE /\ dsStatus' = [d \in DOMAIN dsStatus |->
                                 IF d \in RunDatasets
                                 THEN GetBqDataset(dsStatus[d]).status
                                 ELSE dsStatus[d]]
               /\ dsLookups' = dsLookups + Cardinality(RunDatasets)
               /\ pc' = "list_sheets"
               /\ UNCHANGED outcome
  /\ UNCHANGED << tokenFile, keyFile, tmpFiles, bqTables, clock, runNo, request,
                  creds, timestamp, sheets, idx, blobResult, keyCalls, dsByDoc,
                  tokenWrites, tokenAtStart, cacheCreds, fetched, loaded,
                  tableCalls, histLoads >>

\* Lines 241-243: the timestamp, then the Drive listing.
ListSheets ==
  /\ pc = "list_sheets"
  /\ timestamp' = Strftime(clock)
  /\ \/ \E l \in SheetLists :
          /\ sheets' = [i \in DOMAIN l |-> [name |-> l[i], id |-> i]]
          /\ pc' = IF l = <<>> THEN "save_creds" ELSE "fetch"
          /\ UNCHANGED outcome
     \/ /\ Raise
        /\ UNCHANGED sheets
  /\ UNCHANGED << envVars, runNo, request, creds, idx, logVars >>

\* _fetch_and_load_data, lines 205-207: fetch the values, stage them.
FetchSheet ==
  /\ pc = "fetch"
  /\ \/ \E g \in Grids :
          /\ fetched' = Put(fetched, idx, g)
          /\ tmpFiles' = Put(tmpFiles, CsvPath(sheets[idx].name), WriteToTmp(g))
          /\ pc' = "load_primary"
          /\ UNCHANGED outcome
     \/ /\ Raise
        /\ UNCHANGED << fetched, tmpFiles >>
  /\ UNCHANGED << tokenFile, keyFile, dsStatus, bqTables, clock, runNo, request,
                  creds, timestamp, sheets, idx, blobResult, keyCalls, dsLookups,
                  dsByDoc, tokenWrites, tokenAtStart, cacheCreds, loaded,
                  tableCalls, histLoads >>

\* _get_bq_dataset, _get_bq_table and _load_data for one target table.
\* tres: get_table succeeds or reports NotFound ("ok"), Forbidden, or another
\* error; job: the load job ends DONE or job.result() raises.
LoadInto(ds, requested, kind, nextPc) ==
  LET d    == GetBqDataset(dsStatus[ds])
      key  == << ds, NormalizeTableName(requested) >>
      file == tmpFiles[CsvPath(sheets[idx].name)]
  IN
  /\ dsLookups' = dsLookups + 1
  /\ dsByDoc' = dsByDoc + 1
  /\ dsStatus' = [dsStatus EXCEPT ![ds] = d.status]
  /\ \E tres \in {"ok", "forbidden", "error"}, job \in {"DONE", "error"} :
       IF ~d.handle
       THEN /\ Raise
            /\ UNCHANGED << bqTables, tableCalls, loaded, histLoads >>
       ELSE IF tres # "ok"
       THEN /\ Raise
            /\ tableCalls' = tableCalls \cup { TableCall("get", ds, requested) }
            /\ UNCHANGED << bqTables, loaded, histLoads >>
       ELSE LET created == key \notin DOMAIN bqTables
                tbls == IF created THEN Put(bqTables, key, <<>>) ELSE bqTables
            IN /\ tableCalls' = tableCalls
                     \cup { TableCall("get", ds, requested) }
                     \cup (IF created THEN { TableCall("create", ds, requested) }
                           ELSE {})
               /\ IF job = "error"
                  THEN /\ Raise
                       /\ bqTables' = tbls
                       /\ UNCHANGED << loaded, histLoads >>
                  ELSE /\ bqTables' = Put(tbls, key, LoadedRows(file))
                       /\ loaded' = loaded \cup { << idx, kind >> }
                       /\ histLoads' =
                            IF kind = "history"
                            THEN Put(histLoads, key,
                                     IF key \in DOMAIN histLoads
                                     THEN "many" ELSE "one")
                            ELSE histLoads
                       /\ pc' = nextPc
                       /\ UNCHANGED outcome
  /\ UNCHANGED << tokenFile, keyFile, tmpFiles, clock, runNo, request, creds,
                  timestamp, sheets, idx, blobResult, keyCalls, tokenWrites,
                  tokenAtStart, cacheCreds, fetched >>

\* Lines 209-213.
LoadPrimary ==
  /\ pc = "load_primary"
  /\ LoadInto(BQ_DATASET, sheets[idx].name, "primary", "load_history")

\* Lines 215-220.
LoadHistory ==
  /\ pc = "load_history"
  /\ LoadInto(HISTORY_DATASET, HistoryTableName(sheets[idx].name, timestamp),
              "history", "delete_tmp")

\* Line 221, and the loop of line 243.
DeleteTmp ==
  /\ pc = "delete_tmp"
  /\ tmpFiles' = Remove(tmpFiles, CsvPath(sheets[idx].name))
  /\ idx' = idx + 1
  /\ pc' = IF idx + 1 > Len(sheets) THEN "save_creds" ELSE "fetch"
  /\ UNCHANGED << tokenFile, keyFile, dsStatus, bqTables, clock, runNo, request,
                  creds, timestamp, sheets, outcome, logVars >>

\* Lines 246-248; creds.token is read here, after the authorized calls.
SaveCreds ==
  /\ pc = "save_creds"
  /\ \E c \in creds, tok \in BOOLEAN :
       /\ creds' = { Authorized(c, tok) }
       /\ IF ShouldSave(Authorized(c, tok))
          THEN /\ tokenFile' = { Authorized(c, tok) }
               /\ tokenWrites' = tokenWrites + 1
          ELSE UNCHANGED << tokenFile, tokenWrites >>
  /\ pc' = "done"
  /\ outcome' = DoneMessage
  /\ UNCHANGED << keyFile, tmpFiles, dsStatus, bqTables, clock, runNo, request,
                  timestamp, sheets, idx, blobResult, keyCalls, dsLookups,
                  dsByDoc, tokenAtStart, cacheCreds, fetched, loaded, tableCalls,
                  histLoads >>

Next ==
  \/ Tick
  \/ ExpireToken
  \/ StartRun
  \/ EndRun
  \/ CheckCreds
  \/ FetchCreds
  \/ CheckAbort
  \/ EnsureDatasets
  \/ ListSheets
  \/ FetchSheet
  \/ LoadPrimary
  \/ LoadHistory
  \/ DeleteTmp
  \/ SaveCreds

Spec == Init /\ [][Next]_vars

\* ------------------------------------------------------------------ properties
\* The run has left credential acquisition (line 226), by returning or raising.
AcquisitionOver == pc \notin {"idle", "check_creds", "fetch_creds"}

\* The run is at or past the document loop.
Enumerated == pc \in {"fetch", "load_primary", "load_history", "delete_tmp",
                      "save_creds", "done"}

Chars(s) == { s[i] : i \in DOMAIN s }

HyphensToUnderscores(s) == [i \in DOMAIN s |-> IF s[i] = "-" THEN "_" ELSE s[i]]

\* A grid without its first row.
WithoutLeadingRow(g) == IF Len(g) = 0 THEN <<>> ELSE SubSeq(g, 2, Len(g))

PrimaryKey(name) == << BQ_DATASET, HyphensToUnderscores(name) >>

\* C1: with no token cache file and no key blob in the bucket (get_blob finds
\* none), the run ends aborted (abort(500) for a request, "Quit" and a return
\* otherwise): nothing is listed, fetched, staged or loaded, the token cache
\* is not written and the success message is not returned.
C1_NoCredentialsAborts ==
  (AcquisitionOver /\ tokenAtStart = {} /\ blobResult = "missing")
    => /\ pc \in {"have_creds", "aborted"}
       /\ pc = "aborted" => outcome = (IF request THEN "abort(500)" ELSE "Quit")
       /\ sheets = <<>>
       /\ fetched = EmptyMap
       /\ loaded = {}
       /\ tableCalls = {}
       /\ tokenWrites = 0
       /\ tokenFile = {}
       /\ outcome # DoneMessage

\* C2: when the token cache holds a valid credential, acquisition returns
\* that credential and the run makes no blob lookup, no key download and no
\* key parse.
C2_ValidCacheSkipsKeyStorage ==
  (pc \notin {"idle", "check_creds"} /\ \E c \in tokenAtStart : Valid(c))
    => /\ cacheCreds = tokenAtStart
       /\ creds = tokenAtStart
       /\ keyCalls = NoKeyCalls
       /\ blobResult = "none"

C2_Witness ==
  /\ pc = "done"
  /\ \E c \in tokenAtStart : Valid(c)
  /\ creds = tokenAtStart
  /\ Len(sheets) > 0

\* C3: whenever the cache step leaves no usable credential (no cache file, or
\* a cached credential that is not valid and that no refresh made valid),
\* acquisition looks the remote key up and parses it exactly once.
C3_UnusableCacheFetchesKeyOnce ==
  (AcquisitionOver /\ \A c \in cacheCreds : ~Valid(c))
    => /\ keyCalls.lookups = 1
       /\ blobResult = "ok" => (keyCalls.downloads = 1 /\ keyCalls.parses = 1)

\* C4: history tables are write-once: no history table is loaded by more than
\* one (run, document) pair.
C4_HistoryWriteOnce ==
  \A k \in DOMAIN histLoads : histLoads[k] = "one"

\* C5: after a run that returns the success message, the primary table named
\* after each enumerated document holds that document's fetched grid minus
\* the skipped leading row.
C5_PrimaryHoldsFetchedRows ==
  outcome = DoneMessage
    => \A i \in DOMAIN sheets :
         /\ PrimaryKey(sheets[i].name) \in DOMAIN bqTables
         /\ bqTables[PrimaryKey(sheets[i].name)] = WithoutLeadingRow(fetched[i])

\* C6: every get-table and create-table call carries the requested name (the
\* sheet name, or sheet_timestamp for the history table) with every hyphen
\* replaced by an underscore; no such call carries a hyphen.
C6_TableNamesNormalized ==
  \A call \in tableCalls :
    /\ call.table = HyphensToUnderscores(call.requested)
    /\ "-" \notin Chars(call.table)
    /\ \E i \in DOMAIN sheets :
         \/ call.dataset = BQ_DATASET /\ call.requested = sheets[i].name
         \/ /\ call.dataset = HISTORY_DATASET
            /\ call.requested = sheets[i].name \o <<"_">> \o timestamp

C6_Witness ==
  /\ pc = "done"
  /\ \E call \in tableCalls :
       /\ call.op = "create"
       /\ call.dataset = HISTORY_DATASET
       /\ "-" \in Chars(call.requested)
       /\ call.table = <<"a", "_", "b", "_", "0", "1">>

\* C7: no staged file exists when a document's fetch begins, when the loop
\* is over, or when the run has ended, however the document's step ended.
C7_StagedFileRemoved ==
  pc \in {"fetch", "save_creds", "idle"} \cup Terminal => DOMAIN tmpFiles = {}

\* C8: the success message is returned only if credentials were acquired and
\* both loads of every enumerated document succeeded, and never when a
\* dataset of the run was permission-denied.
C8_SuccessMeansAllLoaded ==
  outcome = DoneMessage
    => /\ creds # {}
       /\ \A i \in DOMAIN sheets :
            << i, "primary" >> \in loaded /\ << i, "history" >> \in loaded
       /\ \A d \in DOMAIN dsStatus : dsStatus[d] # "forbidden"

\* C9 as stated: each of the two datasets is looked up exactly once per run,
\* before enumeration, and processing a document looks up no dataset.
C9_DatasetsEnsuredOncePerRun ==
  /\ pc = "list_sheets" => dsLookups = 2
  /\ Enumerated => (dsLookups = 2 /\ dsByDoc = 0)

\* C9 as amended: before enumeration each of the two datasets is looked up
\* exactly once (and created if missing); each processed document then looks
\* up the primary dataset once before its primary load and the history
\* dataset once before its history load, so a run that completes over n
\* documents makes 2 + 2n dataset lookups.
C9_DatasetsEnsuredOnceThenPerDocument ==
  /\ pc = "list_sheets"
       => /\ dsLookups = 2
          /\ dsByDoc = 0
          /\ \A d \in DOMAIN dsStatus : dsStatus[d] # "missing"
  /\ Enumerated => dsLookups = 2 + dsByDoc
  /\ pc \in {"fetch", "load_primary"} => dsByDoc = 2 * (idx - 1)
  /\ pc = "load_history" => dsByDoc = 2 * (idx - 1) + 1
  /\ pc = "delete_tmp" => dsByDoc = 2 * idx
  /\ pc \in {"save_creds", "done"} => dsByDoc = 2 * Len(sheets)

C9_Witness ==
  /\ pc = "done"
  /\ Len(sheets) = 2
  /\ dsLookups = 6

\* C10: the token cache is written at most once per run, only after every
\* enumerated document has been processed and only if the credential carries
\* a token; in a run that aborts or fails, and in a completed run whose
\* credential has no token, the cache file is as it was when the run started.
C10_TokenCacheWrittenOnlyAtSuccess ==
  /\ tokenWrites <= 1
  /\ tokenWrites = 1
       => /\ pc = "done"
          /\ \A i \in DOMAIN sheets :
               << i, "primary" >> \in loaded /\ << i, "history" >> \in loaded
          /\ \E c \in creds : c.token
          /\ tokenFile = creds
  /\ (pc \notin {"idle", "done"}) => (tokenWrites = 0 /\ tokenFile = tokenAtStart)
  /\ (pc = "done" /\ \E c \in creds : ~c.token)
       => (tokenWrites = 0 /\ tokenFile = tokenAtStart)

C10_Witness ==
  /\ pc = "done"
  /\ tokenWrites = 1
  /\ Len(sheets) = 2
  /\ tokenAtStart # tokenFile

====
